---- MODULE Spec2Model ----
(***************************************************************************)
(* Model of packages/vite/src/node/build.ts: the production build entry    *)
(* point build(), its worker doBuild(), the library-mode output resolver   *)
(* resolveBuildOutputs() and the process-wide parallel build tracker       *)
(* (parallelCallCounts / paralellBuilds).                                  *)
(*                                                                         *)
(* JavaScript runs each synchronous stretch of code to completion, so one  *)
(* action is one stretch between two suspension points (await / promise    *)
(* settlement).                                                            *)
(***************************************************************************)
EXTENDS Integers, Sequences, FiniteSets, TLC

\* ------------------------------------------------------------------ bounds

\* Number of build() calls made in the process.
NumBuilds == 2

\* Longest build.lib.formats list drawn for resolveBuildOutputs.
MaxFormats == 2

\* Longest build.base string drawn for resolveBuildOptions.
MaxBaseLen == 2

\* Longest rollupOptions.plugins list drawn for resolveBuildPlugins.
MaxUserPlugins == 2

Builds == 1..NumBuilds

\* ------------------------------------------------------- values of the code

\* type LibraryFormats = 'es' | 'cjs' | 'umd' | 'iife'
LibraryFormats == {"es", "cjs", "umd", "iife"}

\* An optional value is a sequence of length 0 (undefined) or 1.
Absent == <<>>
Some(v) == <<v>>

\* JavaScript truthiness of an optional string: undefined and '' are falsy.
Truthy(opt) == opt # Absent /\ opt[1] # ""

\* The three dynamic shapes of rollupOptions.output.
OutUndefined == [kind |-> "undefined"]
OutSingle(o) == [kind |-> "single", opts |-> o]
OutList(os) == [kind |-> "list", opts |-> os]

\* options.lib: false, or a LibraryOptions object.
LibFalse == [kind |-> "false"]
Lib(entry, name, formats) ==
    [kind |-> "lib", entry |-> entry, name |-> name, formats |-> formats]

\* Errors are records so that any two can be compared.
NoError == [src |-> "none", idx |-> 0]
ConfigLoadError == [src |-> "resolveConfig", idx |-> 0]
RollupError == [src |-> "rollup", idx |-> 0]
LibNameError == [src |-> "build.lib.name", idx |-> 0]
GenError(i) == [src |-> "generate", idx |-> i]

\* ------------------------------------------------------ resolveBuildOutputs

\* const formats = libOptions.formats || ['es', 'umd']
\* (an array, even an empty one, is truthy)
EffectiveFormats(lib) ==
    IF lib.formats # Absent THEN lib.formats[1] ELSE <<"es", "umd">>

Includes(seq, v) == \E i \in 1..Len(seq) : seq[i] = v

NameRequired_NoIife(formats, name) ==
    Includes(formats, "umd") /\ ~Truthy(name)

\* (formats.includes('umd') || formats.includes('iife')) && !libOptions.name
NameRequired(formats, name) ==
    (Includes(formats, "umd") \/ Includes(formats, "iife")) /\ ~Truthy(name)

\* { format }
FormatOnly(format) == [format |-> format]

WithFormat_KeepOwn(o, format) ==
    [k \in (DOMAIN o) \cup {"format"} |->
        IF k \in DOMAIN o THEN o[k] ELSE format]

\* { ...outputs, format }
WithFormat(o, format) ==
    [k \in (DOMAIN o) \cup {"format"} |->
        IF k = "format" THEN format ELSE o[k]]

FormatsIgnored_OnlyNonEmpty(lib) ==
    lib.formats # Absent /\ lib.formats[1] # <<>>

\* else if (libOptions.formats): any array, the empty one too, is truthy.
FormatsIgnored(lib) == lib.formats # Absent

Returned(value, warned) ==
    [kind |-> "return", value |-> value, warned |-> warned, err |-> NoError]

Thrown(e) ==
    [kind |-> "throw", value |-> OutUndefined, warned |-> FALSE, err |-> e]

\* function resolveBuildOutputs(outputs, libOptions, logger).  `warned` is
\* whether logger.warn was called.
ResolveBuildOutputs(outputs, lib) ==
    IF lib.kind = "lib"
    THEN LET formats == EffectiveFormats(lib) IN
         IF NameRequired(formats, lib.name)
         THEN Thrown(LibNameError)
         ELSE IF outputs.kind = "undefined"
         THEN Returned(OutList([i \in 1..Len(formats) |->
                  FormatOnly(formats[i])]), FALSE)
         ELSE IF outputs.kind = "single"
         THEN Returned(OutList([i \in 1..Len(formats) |->
                  WithFormat(outputs.opts, formats[i])]), FALSE)
         ELSE Returned(outputs, FormatsIgnored(lib))
    ELSE Returned(outputs, FALSE)

\* ------------------------------------------------- parallel build tracker

\* parallelCallCounts++
Increment(count) == count + 1

CountAfterDoBuild_NoFinally(count, kind) ==
    IF kind = "rejected" THEN count ELSE count - 1

\* try { return await doBuild(...) } finally { parallelCallCounts-- }: the
\* decrement runs whichever way doBuild's promise settled.
CountAfterDoBuild(count, kind) == count - 1

TeardownDue_Early(count) == count <= 1

TeardownDue_Always(count) == TRUE

\* if (parallelCallCounts <= 0)
TeardownDue(count) == count <= 0

Occurrences(seq, v) == Cardinality({i \in 1..Len(seq) : seq[i] = v})

\* paralellBuilds.forEach((bundle) => bundle.close()): the number of close()
\* calls each handle has received.
CloseAll(closeCount, registry) ==
    [h \in DOMAIN closeCount |-> closeCount[h] + Occurrences(registry, h)]

ClearRegistry_Forgotten(registry) == registry

\* paralellBuilds.length = 0
ClearRegistry(registry) == <<>>

\* ------------------------------------------------------------------ doBuild

\* Which failures the try { ... } catch (e) of doBuild sees.  resolveConfig is
\* awaited before the try; the generation promises are returned from inside
\* the try without being awaited, so their rejection settles doBuild's
\* promise after the try block has been left.
CaughtByDoBuild(e) == e.src \in {"rollup", "build.lib.name"}

\* config.logger.error(...) in the catch block.
LogIfCaught(log, e) == IF CaughtByDoBuild(e) THEN Append(log, e) ELSE log

FsOps_Always(write, publicExists) ==
    <<"emptyDir">> \o (IF publicExists THEN <<"copyDir">> ELSE <<>>)

\* if (options.write) { emptyDir(outDir);
\*   if (fs.existsSync(publicDir)) copyDir(publicDir, outDir) }
FsOps(write, publicExists) ==
    IF write
    THEN <<"emptyDir">> \o (IF publicExists THEN <<"copyDir">> ELSE <<>>)
    ELSE <<>>

\* bundle[options.write ? 'write' : 'generate']
GenerateMethod(write) == IF write THEN "write" ELSE "generate"

\* Array.isArray(outputs) ? outputs.map(generate) : [generate(outputs)]:
\* the number of generation calls started.
NumGenerate(outputs) == IF outputs.kind = "list" THEN Len(outputs.opts) ELSE 1

\* The RollupOutput of a generation call, named by the output options the
\* call was given (generate(output): undefined for a build without any).
RollupOutput(output) == [of |-> output]

\* The output options generation call i is given.
OutputOf(outputs, i) ==
    IF outputs.kind = "list" THEN Some(outputs.opts[i])
    ELSE IF outputs.kind = "single" THEN Some(outputs.opts)
    ELSE Absent

NoValue == [kind |-> "none", outs |-> <<>>]

PromiseAllValue_CompletionOrder(outputs, resolved) ==
    IF outputs.kind = "list"
    THEN [kind |-> "list",
          outs |-> [k \in 1..Len(resolved) |->
                      RollupOutput(OutputOf(outputs, resolved[k]))]]
    ELSE [kind |-> "single", outs |-> <<RollupOutput(OutputOf(outputs, 1))>>]

\* What doBuild's promise resolves with: Promise.all gives the results in
\* the order of the promises it was given, whatever order they resolved
\* in; generate(outputs) alone gives its one result.
PromiseAllValue(outputs, resolved) ==
    IF outputs.kind = "list"
    THEN [kind |-> "list",
          outs |-> [i \in 1..Len(outputs.opts) |->
                      RollupOutput(OutputOf(outputs, i))]]
    ELSE [kind |-> "single", outs |-> <<RollupOutput(OutputOf(outputs, 1))>>]

Pending == [kind |-> "pending", err |-> NoError]
Resolved == [kind |-> "resolved", err |-> NoError]
Rejected(e) == [kind |-> "rejected", err |-> e]

AllOk(states) == \A j \in 1..Len(states) : states[j] = "ok"

PromiseAll_AnyOk(states, i) ==
    IF i # 0 /\ states[i] = "ok" THEN Resolved
    ELSE IF \A j \in 1..Len(states) : states[j] = "failed"
    THEN Rejected(GenError(i))
    ELSE Pending

\* return Promise.all(outputs.map(generate)) / return generate(outputs):
\* the settlement of doBuild's promise, still pending, when generation call
\* i has just settled (i = 0: right after the calls were started).  It
\* rejects with the first rejection and resolves once every call resolved.
PromiseAll(states, i) ==
    IF i # 0 /\ states[i] = "failed" THEN Rejected(GenError(i))
    ELSE IF AllOk(states) THEN Resolved
    ELSE Pending

\* -------------------------------------------------------------------- state

VARIABLES
    parallelCallCounts, \* let parallelCallCounts
    paralellBuilds,     \* const paralellBuilds: the registered handles
    closeCount,         \* per handle, the close() calls it has received
    pc,                 \* per build() call, where it is suspended
    cfg,                \* per call, the resolved config.build it runs with
    gen,                \* per call, the state of each generation call
    result,             \* per call, the settlement of doBuild's promise
    logged,             \* per call, the errors given to config.logger.error
    trace,              \* per call, the collaborator calls made, in order
    order,              \* per call, the generation calls in the order they
                        \* resolved, as long as Promise.all has not rejected
    value,              \* per call, what doBuild's promise resolved with
    roArgs,             \* resolveBuildOutputs alone: its arguments
    roRet               \* resolveBuildOutputs alone: what it did

buildVars ==
    <<parallelCallCounts, paralellBuilds, closeCount, pc, cfg, gen, result,
      logged, trace, order, value>>

roVars == <<roArgs, roRet>>

VARIABLES
    owArgs,             \* onRollupWarning alone: its arguments
    owRet,              \* onRollupWarning alone: what it did
    boArgs,             \* resolveBuildOptions alone: its argument
    boRet,              \* resolveBuildOptions alone: what it returned
    bpArgs,             \* resolveBuildPlugins alone: its argument
    bpRet,              \* resolveBuildPlugins alone: what it returned
    riArgs,             \* the rollup.rollup call alone: what doBuild has
    riRet               \* the rollup.rollup call alone: the options passed

owVars == <<owArgs, owRet>>

boVars == <<boArgs, boRet>>

bpVars == <<bpArgs, bpRet>>

riVars == <<riArgs, riRet>>

\* The variables of the functions checked on their own.
pureVars == <<roVars, owVars, boVars, bpVars, riVars>>

vars == <<buildVars, pureVars>>

\* The handle of a call's bundle is named after the call: each call to
\* rollup.rollup returns a fresh RollupBuild.
Handle(b) == b

\* ------------------------------------------------------ configurations drawn

GoodLib == Lib("src/lib.js", Some("MyLib"), Some(<<"es", "umd">>))
NamelessLib == Lib("src/lib.js", Absent, Absent)

TwoTargets == OutList(<<[format |-> "es"], [format |-> "cjs"]>>)

\* The projects the build() calls run on: the fields of config.build that
\* doBuild reads, and whether <root>/public exists.  Application builds
\* generating one target (written or kept in memory) or a list of two, a
\* library build of two formats, and a library build whose default formats
\* need the name it lacks.
Project(write, publicExists, lib, output) ==
    [write |-> write, publicExists |-> publicExists, lib |-> lib,
     output |-> output]

BuildConfigs ==
    {Project(TRUE, TRUE, LibFalse, OutUndefined),
     Project(FALSE, TRUE, LibFalse, OutUndefined),
     Project(FALSE, TRUE, LibFalse, TwoTargets),
     Project(TRUE, FALSE, GoodLib, OutUndefined),
     Project(TRUE, FALSE, NamelessLib, OutUndefined)}

NoConfig == Project(FALSE, FALSE, LibFalse, OutUndefined)

NotCalled == [kind |-> "not called"]

\* A function checked on its own that the specification at hand leaves out.
OutputsIdle ==
    /\ roArgs = [outputs |-> OutUndefined, lib |-> LibFalse]
    /\ roRet = NotCalled

WarningIdle == owArgs = NotCalled /\ owRet = NotCalled

OptionsIdle == boArgs = NotCalled /\ boRet = NotCalled

PluginsIdle == bpArgs = NotCalled /\ bpRet = NotCalled

RollupInputIdle == riArgs = NotCalled /\ riRet = NotCalled

InitBuilds ==
    /\ parallelCallCounts = 0
    /\ paralellBuilds = <<>>
    /\ closeCount = [h \in Builds |-> 0]
    /\ pc = [b \in Builds |-> "idle"]
    /\ cfg = [b \in Builds |-> NoConfig]
    /\ gen = [b \in Builds |-> <<>>]
    /\ result = [b \in Builds |-> Pending]
    /\ logged = [b \in Builds |-> <<>>]
    /\ trace = [b \in Builds |-> <<>>]
    /\ order = [b \in Builds |-> <<>>]
    /\ value = [b \in Builds |-> NoValue]

Init ==
    /\ InitBuilds
    /\ OutputsIdle
    /\ WarningIdle
    /\ OptionsIdle
    /\ PluginsIdle
    /\ RollupInputIdle

\* ------------------------------------------------------------------ actions

\* build() is called: the count is incremented and doBuild runs up to
\* `await resolveConfig(...)`.
BuildCall(b) ==
    /\ pc[b] = "idle"
    /\ parallelCallCounts' = Increment(parallelCallCounts)
    /\ trace' = [trace EXCEPT ![b] = Append(@, "resolveConfig")]
    /\ pc' = [pc EXCEPT ![b] = "resolveConfig"]
    /\ UNCHANGED <<paralellBuilds, closeCount, cfg, gen, result, logged,
                   order, value, pureVars>>

\* resolveConfig resolved with the config: doBuild computes its input and
\* calls rollup.rollup, awaiting the bundle inside the try block.
ConfigResolved(b) ==
    /\ pc[b] = "resolveConfig"
    /\ \E c \in BuildConfigs : cfg' = [cfg EXCEPT ![b] = c]
    /\ trace' = [trace EXCEPT ![b] = Append(@, "rollup")]
    /\ pc' = [pc EXCEPT ![b] = "rollup"]
    /\ UNCHANGED <<parallelCallCounts, paralellBuilds, closeCount, gen,
                   result, logged, order, value, pureVars>>

\* resolveConfig rejected: the await is outside the try block, so doBuild's
\* promise rejects with nothing logged.
ConfigRejected(b) ==
    /\ pc[b] = "resolveConfig"
    /\ result' = [result EXCEPT ![b] = Rejected(ConfigLoadError)]
    /\ logged' = [logged EXCEPT ![b] = LogIfCaught(@, ConfigLoadError)]
    /\ pc' = [pc EXCEPT ![b] = "returned"]
    /\ UNCHANGED <<parallelCallCounts, paralellBuilds, closeCount, cfg, gen,
                   trace, order, value, pureVars>>

\* rollup.rollup rejected: the catch block logs the error and rethrows it.
AssembleRejected(b) ==
    /\ pc[b] = "rollup"
    /\ trace' = [trace EXCEPT ![b] = Append(@, "rollup rejected")]
    /\ result' = [result EXCEPT ![b] = Rejected(RollupError)]
    /\ logged' = [logged EXCEPT ![b] = LogIfCaught(@, RollupError)]
    /\ pc' = [pc EXCEPT ![b] = "returned"]
    /\ UNCHANGED <<parallelCallCounts, paralellBuilds, closeCount, cfg, gen,
                   order, value, pureVars>>

\* What doBuild does, in one synchronous stretch, once rollup.rollup has
\* resolved with the bundle: register it, clear and fill the output
\* directory, resolve the outputs, start the generation calls and return
\* their promise; or, when resolveBuildOutputs throws, log and rethrow.
AfterAssemble(c) ==
    LET r == ResolveBuildOutputs(c.output, c.lib)
        n == IF r.kind = "throw" THEN 0 ELSE NumGenerate(r.value)
        started == [i \in 1..n |-> "running"]
    IN [calls |-> <<"bundle", "push">> \o FsOps(c.write, c.publicExists)
                  \o <<"resolveBuildOutputs">>
                  \o [i \in 1..n |-> GenerateMethod(c.write)],
        gen |-> started,
        result |-> IF r.kind = "throw" THEN Rejected(r.err)
                   ELSE PromiseAll(started, 0),
        thrown |-> IF r.kind = "throw" THEN <<r.err>> ELSE <<>>,
        outputs |-> r.value]

\* const outputs = resolveBuildOutputs(options.rollupOptions?.output,
\* libOptions, config.logger), when it returns.
ResolvedOutputs(c) == ResolveBuildOutputs(c.output, c.lib).value

AssembleResolved(b) ==
    /\ pc[b] = "rollup"
    /\ LET a == AfterAssemble(cfg[b]) IN
         /\ paralellBuilds' = Append(paralellBuilds, Handle(b))
         /\ trace' = [trace EXCEPT ![b] = @ \o a.calls]
         /\ gen' = [gen EXCEPT ![b] = a.gen]
         /\ result' = [result EXCEPT ![b] = a.result]
         /\ logged' = [logged EXCEPT ![b] =
                IF a.thrown = <<>> THEN @ ELSE LogIfCaught(@, a.thrown[1])]
         /\ value' = [value EXCEPT ![b] =
                IF a.result.kind = "resolved"
                THEN PromiseAllValue(a.outputs, order[b]) ELSE @]
    /\ pc' = [pc EXCEPT ![b] = "returned"]
    /\ UNCHANGED <<parallelCallCounts, closeCount, cfg, order, pureVars>>

\* Generation call i of call b settles.  While doBuild's promise is still
\* pending it follows Promise.all; the calls still running keep running
\* whatever became of doBuild's promise and of build().
GenerateSettled(b, i, outcome) ==
    /\ i \in 1..Len(gen[b])
    /\ gen[b][i] = "running"
    /\ LET states == [gen[b] EXCEPT ![i] = outcome]
           settled == IF result[b].kind = "pending"
                      THEN PromiseAll(states, i) ELSE result[b]
           resolved == IF result[b].kind # "pending" THEN order[b]
                       ELSE IF outcome = "ok" THEN Append(order[b], i)
                       ELSE <<>>
       IN
         /\ gen' = [gen EXCEPT ![b] = states]
         /\ result' = [result EXCEPT ![b] = settled]
         /\ order' = [order EXCEPT ![b] = resolved]
         /\ value' = [value EXCEPT ![b] =
                IF result[b].kind = "pending" /\ settled.kind = "resolved"
                THEN PromiseAllValue(ResolvedOutputs(cfg[b]), resolved)
                ELSE @]
         /\ logged' = [logged EXCEPT ![b] =
                IF outcome = "failed" /\ result[b].kind = "pending"
                THEN LogIfCaught(@, GenError(i)) ELSE @]
    /\ UNCHANGED <<parallelCallCounts, paralellBuilds, closeCount, pc, cfg,
                   trace, pureVars>>

GenerateResolved(b, i) == GenerateSettled(b, i, "ok")

GenerateRejected(b, i) == GenerateSettled(b, i, "failed")

\* doBuild's promise has settled: build()'s finally block runs and build()
\* settles the same way.
BuildFinally(b) ==
    /\ pc[b] = "returned"
    /\ result[b].kind # "pending"
    /\ LET count == CountAfterDoBuild(parallelCallCounts, result[b].kind) IN
         /\ parallelCallCounts' = count
         /\ IF TeardownDue(count)
            THEN /\ closeCount' = CloseAll(closeCount, paralellBuilds)
                 /\ paralellBuilds' = ClearRegistry(paralellBuilds)
            ELSE UNCHANGED <<closeCount, paralellBuilds>>
    /\ pc' = [pc EXCEPT ![b] = "done"]
    /\ UNCHANGED <<cfg, gen, result, logged, trace, order, value, pureVars>>

Next ==
    \E b \in Builds :
        \/ BuildCall(b)
        \/ ConfigResolved(b)
        \/ ConfigRejected(b)
        \/ AssembleResolved(b)
        \/ AssembleRejected(b)
        \/ \E i \in 1..Len(gen[b]) : GenerateResolved(b, i)
        \/ \E i \in 1..Len(gen[b]) : GenerateRejected(b, i)
        \/ BuildFinally(b)

Spec == Init /\ [][Next]_vars

\* ------------------------------------------- resolveBuildOutputs on its own

FormatLists == UNION {[1..n -> LibraryFormats] : n \in 0..MaxFormats}

LibNames == {Absent, Some(""), Some("MyLib")}

LibChoices ==
    {LibFalse} \cup
    {Lib("src/lib.js", name, formats) :
        name \in LibNames,
        formats \in {Absent} \cup {Some(fl) : fl \in FormatLists}}

OutputChoices ==
    {OutUndefined,
     OutSingle([dir |-> "out"]),
     OutSingle([format |-> "iife", dir |-> "out"]),
     OutList(<<[format |-> "umd"]>>),
     TwoTargets}

InitOutputs ==
    /\ InitBuilds
    /\ roArgs \in [outputs : OutputChoices, lib : LibChoices]
    /\ roRet = NotCalled
    /\ WarningIdle
    /\ OptionsIdle
    /\ PluginsIdle
    /\ RollupInputIdle

\* resolveBuildOutputs(outputs, libOptions, logger) is called.
ResolveCall ==
    /\ roRet = NotCalled
    /\ roRet' = ResolveBuildOutputs(roArgs.outputs, roArgs.lib)
    /\ UNCHANGED <<roArgs, buildVars, owVars, boVars, bpVars, riVars>>

NextOutputs == ResolveCall

SpecOutputs == InitOutputs /\ [][NextOutputs]_vars

\* ---------------------------------------------------------- onRollupWarning

\* const warningIgnoreList = [`CIRCULAR_DEPENDENCY`, `THIS_IS_UNDEFINED`]
warningIgnoreList == <<"CIRCULAR_DEPENDENCY", "THIS_IS_UNDEFINED">>

\* const dynamicImportWarningIgnoreList.  A message is the sequence of its
\* phrases; message.includes(msg) is whether msg is one of them.
dynamicImportWarningIgnoreList ==
    <<"Unsupported expression", "statically analyzed">>

\* isBuiltin(id): whether id names a module of the Node runtime.
NodeBuiltins == {"fs", "path"}

IsBuiltin(id) == id \in NodeBuiltins

\* `${x}` of an optional string.
Interpolate(opt) == IF opt = Absent THEN "undefined" ELSE opt[1]

\* lookupFile(importer, ['package.json']): the manifest nearest the
\* importer, if there is one, and the name it gives, if any.
Manifest(found, name) == [found |-> found, name |-> name]

\* let importingDep: set when an importer is known and
\* JSON.parse(lookupFile(...) || `{}`).name is truthy.
ImportingDep(importer, manifest) ==
    IF Truthy(importer) /\ manifest.found /\ Truthy(manifest.name)
    THEN manifest.name
    ELSE Absent

Allowed_AnyImporter(importingDep, allowNodeBuiltins) ==
    allowNodeBuiltins # <<>>

\* importingDep && allowNodeBuiltins.includes(importingDep)
Allowed(importingDep, allowNodeBuiltins) ==
    importingDep # Absent /\ Includes(allowNodeBuiltins, importingDep[1])

\* The message for an unresolved Node built-in, as the sequence of its
\* literal pieces and interpolated values.
BuiltinMessage(importingDep, id, importer) ==
    (IF importingDep # Absent
     THEN <<"Dependency ", importingDep[1]>>
     ELSE <<"A dependency">>)
    \o <<" is attempting to import Node built-in module ", id,
         ". This will not work in a browser environment. Imported by: ",
         Interpolate(importer)>>

\* The message for any other unresolved import.
UnresolvedMessage(source, importer) ==
    <<"[vite]: Rollup failed to resolve import ", Interpolate(source),
      " from ", Interpolate(importer),
      ". This is most likely unintended because it can break your application at runtime. If you do want to externalize this module explicitly add it to rollupInputOptions.external">>

\* What a call of onRollupWarning did: returned or threw, the message of the
\* Error thrown, and the calls it made to userOnWarn and to warn.
WarningReturned(user, warn) ==
    [kind |-> "return", message |-> <<>>, user |-> user, warn |-> warn]

WarningThrown(message) ==
    [kind |-> "throw", message |-> message, user |-> 0, warn |-> 0]

\* warning.plugin === 'rollup-plugin-dynamic-import-variables' &&
\* dynamicImportWarningIgnoreList.some((msg) => warning.message.includes(msg))
DynamicImportNoise(warning) ==
    /\ warning.plugin = Some("rollup-plugin-dynamic-import-variables")
    /\ \E k \in 1..Len(dynamicImportWarningIgnoreList) :
          Includes(warning.message, dynamicImportWarningIgnoreList[k])

IgnoredCode_OnlyWithoutUserHandler(code, userOnWarn) ==
    ~userOnWarn /\ code # Absent /\ Includes(warningIgnoreList, code[1])

\* warningIgnoreList.includes(warning.code!), asked whether or not a user
\* handler was supplied.
IgnoredCode(code, userOnWarn) ==
    code # Absent /\ Includes(warningIgnoreList, code[1])

Forward_Both(userOnWarn) == WarningReturned(IF userOnWarn THEN 1 ELSE 0, 1)

\* if (userOnWarn) { userOnWarn(warning, warn) } else { warn(warning) }
Forward(userOnWarn) ==
    IF userOnWarn THEN WarningReturned(1, 0) ELSE WarningReturned(0, 1)

\* export function onRollupWarning(warning, warn, allowNodeBuiltins,
\* userOnWarn); `manifest` is what lookupFile finds for the importer.
OnRollupWarning(warning, allowNodeBuiltins, userOnWarn, manifest) ==
    IF warning.code = Some("UNRESOLVED_IMPORT")
    THEN LET id == warning.source
             importer == warning.importer
         IN IF Truthy(id) /\ IsBuiltin(id[1])
            THEN LET importingDep == ImportingDep(importer, manifest) IN
                 IF Allowed(importingDep, allowNodeBuiltins)
                 THEN WarningReturned(0, 0)
                 ELSE WarningThrown(
                          BuiltinMessage(importingDep, id[1], importer))
            ELSE WarningThrown(UnresolvedMessage(id, importer))
    ELSE IF DynamicImportNoise(warning)
    THEN WarningReturned(0, 0)
    ELSE IF ~IgnoredCode(warning.code, userOnWarn)
    THEN Forward(userOnWarn)
    ELSE WarningReturned(0, 0)

WarningCodes ==
    {Absent, Some("UNRESOLVED_IMPORT"), Some("CIRCULAR_DEPENDENCY"),
     Some("THIS_IS_UNDEFINED"), Some("EMPTY_BUNDLE")}

WarningSources == {Absent, Some("fs"), Some("./missing")}

WarningImporters == {Absent, Some("/node_modules/dep/index.js")}

WarningPlugins ==
    {Absent, Some("rollup-plugin-dynamic-import-variables"), Some("vite:css")}

WarningMessages ==
    {<<"Something happened">>,
     <<"Unsupported expression", " in import()">>,
     <<"import() cannot be ", "statically analyzed">>}

Warnings ==
    [code : WarningCodes, source : WarningSources,
     importer : WarningImporters, plugin : WarningPlugins,
     message : WarningMessages]

AllowLists == {<<>>, <<"dep">>, <<"other">>}

Manifests ==
    {Manifest(FALSE, Absent), Manifest(TRUE, Absent),
     Manifest(TRUE, Some("")), Manifest(TRUE, Some("dep"))}

InitWarning ==
    /\ InitBuilds
    /\ OutputsIdle
    /\ owArgs \in [warning : Warnings, allowNodeBuiltins : AllowLists,
                   userOnWarn : BOOLEAN, manifest : Manifests]
    /\ owRet = NotCalled
    /\ OptionsIdle
    /\ PluginsIdle
    /\ RollupInputIdle

\* The engine hands a warning to onRollupWarning.
WarningCall ==
    /\ owRet = NotCalled
    /\ owRet' = OnRollupWarning(owArgs.warning, owArgs.allowNodeBuiltins,
                                owArgs.userOnWarn, owArgs.manifest)
    /\ UNCHANGED <<owArgs, buildVars, roVars, boVars, bpVars, riVars>>

NextWarning == WarningCall

SpecWarning == InitWarning /\ [][NextWarning]_vars

\* ------------------------------------------------------ resolveBuildOptions

\* A string is the sequence of its characters.
Slash == "/"

\* minify?: boolean | 'terser' | 'esbuild'.  The booleans are written true
\* and false, the strings in quotes, so that the string 'false' an untyped
\* caller may pass differs from the boolean.
MinifyTrue == "true"
MinifyFalse == "false"
MinifyTerser == "'terser'"
MinifyEsbuild == "'esbuild'"
MinifyFalseString == "'false'"

\* { base: '/', ..., minify: 'terser', ..., ...raw }: a field raw gives
\* replaces the default.
Overlay(default, given) == IF given = Absent THEN default ELSE given[1]

\* resolved.base.replace(/([^/])$/, '$1/'): a last character other than /
\* is kept and followed by /; a string with no such last character, the
\* empty string included, is left as it is.
EnsureTrailingSlash(base) ==
    IF Len(base) > 0 /\ base[Len(base)] # Slash
    THEN Append(base, Slash)
    ELSE base

\* if ((resolved.minify as any) === 'false') resolved.minify = false
NormalizeMinify(minify) ==
    IF minify = MinifyFalseString THEN MinifyFalse ELSE minify

\* export function resolveBuildOptions(raw): the fields it normalizes.
ResolveBuildOptions(raw) ==
    [base |-> EnsureTrailingSlash(Overlay(<<Slash>>, raw.base)),
     minify |-> NormalizeMinify(Overlay(MinifyTerser, raw.minify))]

BaseChars == {Slash, "a", "b"}

BaseStrings == UNION {[1..n -> BaseChars] : n \in 0..MaxBaseLen}

RawMinify ==
    {MinifyTrue, MinifyFalse, MinifyTerser, MinifyEsbuild, MinifyFalseString}

RawBuildOptions ==
    [base : {Absent} \cup {Some(b) : b \in BaseStrings},
     minify : {Absent} \cup {Some(m) : m \in RawMinify}]

InitOptions ==
    /\ InitBuilds
    /\ OutputsIdle
    /\ WarningIdle
    /\ boArgs \in RawBuildOptions
    /\ boRet = NotCalled
    /\ PluginsIdle
    /\ RollupInputIdle

\* resolveBuildOptions(raw) is called.
OptionsCall ==
    /\ boRet = NotCalled
    /\ boRet' = ResolveBuildOptions(boArgs)
    /\ UNCHANGED <<boArgs, buildVars, roVars, owVars, bpVars, riVars>>

NextOptions == OptionsCall

SpecOptions == InitOptions /\ [][NextOptions]_vars

\* ------------------------------------------------------ resolveBuildPlugins

\* A plugin is named by the call that makes it.
CommonjsPlugin == "commonjsPlugin"
HtmlPlugin == "buildHtmlPlugin"
DefinePlugin == "buildDefinePlugin"
DynamicImportVarsPlugin == "dynamicImportVars"
EsbuildPlugin == "buildEsbuildPlugin"
TerserPlugin == "terserPlugin"
ManifestPlugin == "manifestPlugin"
ReporterPlugin == "buildReporterPlugin"

\* ...(cond ? [plugin] : [])
OnlyIf(cond, plugin) == IF cond THEN <<plugin>> ELSE <<>>

MinifierWanted_EsbuildToo(minify) == minify # MinifyFalse

\* options.minify && options.minify !== 'esbuild'
MinifierWanted(minify) == minify # MinifyFalse /\ minify # MinifyEsbuild

\* !config.logLevel || config.logLevel === 'info'
ReporterWanted(logLevel) == ~Truthy(logLevel) \/ logLevel = Some("info")

\* export function resolveBuildPlugins(config)
ResolveBuildPlugins(config) ==
    Overlay(<<>>, config.plugins)
    \o <<CommonjsPlugin, HtmlPlugin, DefinePlugin, DynamicImportVarsPlugin,
         EsbuildPlugin>>
    \o OnlyIf(MinifierWanted(config.minify), TerserPlugin)
    \o OnlyIf(config.manifest, ManifestPlugin)
    \o OnlyIf(ReporterWanted(config.logLevel), ReporterPlugin)

UserPlugins == {"user-a", "user-b"}

UserPluginLists == UNION {[1..n -> UserPlugins] : n \in 0..MaxUserPlugins}

\* config.build.minify is a value resolveBuildOptions returns.
ResolvedMinify == {NormalizeMinify(m) : m \in RawMinify}

LogLevels == {Absent, Some("info"), Some("warn"), Some("error"), Some("silent")}

PluginConfigs ==
    [plugins : {Absent} \cup {Some(ps) : ps \in UserPluginLists},
     minify : ResolvedMinify,
     manifest : BOOLEAN,
     logLevel : LogLevels]

InitPlugins ==
    /\ InitBuilds
    /\ OutputsIdle
    /\ WarningIdle
    /\ OptionsIdle
    /\ bpArgs \in PluginConfigs
    /\ bpRet = NotCalled
    /\ RollupInputIdle

\* resolveBuildPlugins(config) is called.
PluginsCall ==
    /\ bpRet = NotCalled
    /\ bpRet' = [plugins |-> ResolveBuildPlugins(bpArgs)]
    /\ UNCHANGED <<bpArgs, buildVars, roVars, owVars, boVars, riVars>>

NextPlugins == PluginsCall

SpecPlugins == InitPlugins /\ [][NextPlugins]_vars

\* ------------------------------------------- the options given to rollup

\* A path is the sequence of the pieces path.resolve joins.
\* const resolve = (p: string) => path.resolve(config.root, p)
ResolvePath(root, p) == <<root, p>>

\* { ...a, ...b }: a key of b replaces the same key of a.
Spread(a, b) ==
    [k \in (DOMAIN a) \cup (DOMAIN b) |-> IF k \in DOMAIN b THEN b[k] ELSE a[k]]

\* const input = libOptions ? libOptions.entry
\*   : options.rollupOptions?.input || resolve('index.html')
EntryInput(config) ==
    IF config.lib.kind = "lib" THEN <<config.lib.entry>>
    ELSE IF "input" \in DOMAIN config.rollupOptions
    THEN config.rollupOptions.input
    ELSE ResolvePath(config.root, "index.html")

\* rollup.rollup({ input, preserveEntrySignatures: libOptions ? 'strict' :
\* false, ...options.rollupOptions, plugins, onwarn }): the options object
\* the engine's assemble phase receives.
RollupInputOptions(config) ==
    Spread(Spread([input |-> EntryInput(config),
                   preserveEntrySignatures |->
                       IF config.lib.kind = "lib" THEN "strict" ELSE "false"],
                  config.rollupOptions),
           [plugins |-> "config.plugins", onwarn |-> "onRollupWarning"])

UserInputs == {<<"src/main.js">>, <<"src/other.js">>}

\* build.rollupOptions with and without an input and a
\* preserveEntrySignatures of the user's.
UserRollupOptions ==
    {[plugins |-> "user plugins"]}
    \cup [plugins : {"user plugins"}, input : UserInputs]
    \cup [plugins : {"user plugins"},
          preserveEntrySignatures : {"strict", "allow-extension"}]
    \cup [plugins : {"user plugins"}, input : UserInputs,
          preserveEntrySignatures : {"strict", "allow-extension"}]

Roots == {"/proj", "/work/app", "/srv/site", "/tmp/demo"}

RollupInputConfigs ==
    [root : Roots,
     lib : {LibFalse, GoodLib, Lib("src/index.ts", Absent, Some(<<"es">>))},
     rollupOptions : UserRollupOptions]

InitRollupInput ==
    /\ InitBuilds
    /\ OutputsIdle
    /\ WarningIdle
    /\ OptionsIdle
    /\ PluginsIdle
    /\ riArgs \in RollupInputConfigs
    /\ riRet = NotCalled

\* doBuild calls rollup.rollup.
RollupInputCall ==
    /\ riRet = NotCalled
    /\ riRet' = RollupInputOptions(riArgs)
    /\ UNCHANGED <<riArgs, buildVars, roVars, owVars, boVars, bpVars>>

NextRollupInput == RollupInputCall

SpecRollupInput == InitRollupInput /\ [][NextRollupInput]_vars

\* --------------------------------------------------------------- properties

\* The build() calls that have started and not yet finished.
InFlight == {b \in Builds : pc[b] \notin {"idle", "done"}}

InTrace(b, e) == \E p \in 1..Len(trace[b]) : trace[b][p] = e

Registered(h) == InTrace(h, "push")

\* C1: no handle is closed while a build() call is still in flight: every
\* step in which some handle receives a close() ends with no call in flight,
\* so with two overlapping calls close() comes only after both completed.
C1_NoCloseWhileCallInFlight ==
    [][(\E h \in Builds : closeCount'[h] > closeCount[h])
          => \A b \in Builds : pc'[b] \in {"idle", "done"}]_vars

\* One of two overlapping calls has completed, the other is still in flight,
\* and the completed call's registered handle has not been closed.
C1_Witness ==
    \E a, b \in Builds :
        /\ pc[a] = "done" /\ Registered(a) /\ closeCount[Handle(a)] = 0
        /\ pc[b] = "returned" /\ Registered(b)

\* C2: the tracker count is the number of build() calls started and not yet
\* finished, whichever way doBuild ended; it is never negative and is zero
\* when no call is in flight.
C2_CountIsCallsInFlight ==
    /\ parallelCallCounts = Cardinality(InFlight)
    /\ parallelCallCounts >= 0
    /\ (InFlight = {} => parallelCallCounts = 0)

\* No call in flight after one call failed before its handle was registered
\* and another failed after.
C2_Witness ==
    /\ parallelCallCounts = 0
    /\ \E a, b \in Builds :
        /\ pc[a] = "done" /\ result[a] = Rejected(RollupError)
        /\ ~Registered(a)
        /\ pc[b] = "done" /\ result[b].kind = "rejected" /\ Registered(b)

\* C3: the step that brings the count to zero closes every registered handle
\* and empties the registry; so with no call in flight the registry is empty
\* and every handle ever registered has been closed, and no handle is ever
\* closed twice.
C3_TeardownAtZero ==
    /\ [](/\ \A h \in Builds : closeCount[h] <= 1
          /\ (InFlight = {} =>
                /\ paralellBuilds = <<>>
                /\ \A h \in Builds : Registered(h) => closeCount[h] = 1))
    /\ [][(parallelCallCounts # 0 /\ parallelCallCounts' = 0) =>
            /\ paralellBuilds' = <<>>
            /\ \A h \in Builds :
                 closeCount'[h] =
                    closeCount[h] + Occurrences(paralellBuilds, h)]_vars

\* Two teardowns have happened one after the other: the first call ended and
\* its handle was closed before the second call registered its own.
C3_Witness ==
    \E a, b \in Builds :
        /\ pc[a] = "done" /\ closeCount[Handle(a)] = 1
        /\ pc[b] = "returned" /\ paralellBuilds = <<Handle(b)>>

\* C4: doBuild's promise, which build() passes on, resolves only when the
\* assemble phase and every generation call of every resolved target
\* succeeded; once the assemble phase or a generation call has failed it is
\* rejected with the error of a failed phase, never resolved.
C4_AllOrNothing ==
    \A b \in Builds :
        /\ result[b].kind = "resolved" =>
              /\ InTrace(b, "bundle")
              /\ Len(gen[b]) =
                    NumGenerate(ResolveBuildOutputs(cfg[b].output,
                                                    cfg[b].lib).value)
              /\ \A i \in 1..Len(gen[b]) : gen[b][i] = "ok"
        /\ InTrace(b, "rollup rejected") => result[b] = Rejected(RollupError)
        /\ (\E i \in 1..Len(gen[b]) : gen[b][i] = "failed") =>
              /\ result[b].kind = "rejected"
              /\ \E i \in 1..Len(gen[b]) :
                    gen[b][i] = "failed" /\ result[b].err = GenError(i)

\* A finished call with one target generated and another failed: it was
\* rejected.
C4_Witness ==
    \E b \in Builds :
        /\ pc[b] = "done"
        /\ \E i, j \in 1..Len(gen[b]) :
              gen[b][i] = "ok" /\ gen[b][j] = "failed"

\* C5: a build() call does not complete, and does not run its tracker
\* cleanup, until every generation call it started has completed, also when
\* one of them fails.
C5_BuildWaitsForEveryGeneration ==
    \A b \in Builds :
        pc[b] = "done" => \A i \in 1..Len(gen[b]) : gen[b][i] # "running"

\* C6: every failure of the assembling, bundling or generating phase that
\* build() rejects with has been given to the logger's error sink.
C6_EveryFailureLogged ==
    \A b \in Builds :
        (/\ pc[b] = "done"
         /\ result[b].kind = "rejected"
         /\ result[b].err.src \in {"rollup", "build.lib.name", "generate"})
        => Includes(logged[b], result[b].err)

\* C7: a build rejected for the missing library name never invoked the
\* engine's assemble phase and registered no handle.
C7_NameErrorBeforeAssembling ==
    \A b \in Builds :
        result[b] = Rejected(LibNameError) =>
            ~InTrace(b, "rollup") /\ ~Registered(b)

Positions(b, events) ==
    {p \in 1..Len(trace[b]) : trace[b][p] \in events}

\* C8: in every build call emptyDir and copyDir each run at most once, only
\* with write enabled, only after rollup.rollup resolved with the bundle,
\* and before the first generation call of that build.
C8_ClearAndCopyOnceBeforeGeneration ==
    \A b \in Builds :
        LET clears == Positions(b, {"emptyDir"})
            copies == Positions(b, {"copyDir"})
            bundles == Positions(b, {"bundle"})
            gens == Positions(b, {"write", "generate"})
        IN /\ Cardinality(clears) <= 1
           /\ Cardinality(copies) <= 1
           /\ (clears \cup copies # {} => cfg[b].write)
           /\ \A p \in clears \cup copies :
                 /\ \E q \in bundles : q < p
                 /\ \A q \in gens : p < q
           /\ \A p \in copies : \E q \in clears : q < p

\* A build that cleared the output directory, copied the public directory
\* into it and then started a write.
C8_Witness ==
    \E b \in Builds :
        /\ InTrace(b, "emptyDir") /\ InTrace(b, "copyDir")
        /\ InTrace(b, "write")

Range(seq) == {seq[i] : i \in 1..Len(seq)}

\* C9: in library mode resolveBuildOutputs throws the configuration error
\* exactly when the effective formats (the given list, or es and umd when
\* none is given) contain umd or iife and the name is absent or empty;
\* with a non-empty name it returns, whatever the output override.
C9_NameValidation ==
    (roRet # NotCalled /\ roArgs.lib.kind = "lib") =>
        LET lib == roArgs.lib
            wanted == IF lib.formats = Absent THEN {"es", "umd"}
                      ELSE Range(lib.formats[1])
            nameless == lib.name = Absent \/ lib.name = Some("")
        IN /\ roRet.kind = "throw" <=>
                 (wanted \cap {"umd", "iife"} # {} /\ nameless)
           /\ roRet.kind = "throw" => roRet.err = LibNameError
           /\ ~nameless => roRet.kind = "return"

\* resolveBuildOutputs threw for an iife-only library without a name whose
\* output override is a list.
C9_Witness ==
    /\ roRet # NotCalled
    /\ roRet.kind = "throw"
    /\ roArgs.lib.kind = "lib"
    /\ roArgs.lib.formats = Some(<<"iife">>)
    /\ roArgs.outputs.kind = "list"

\* C10: in library mode, when validation passes and the override is absent
\* or a single target, the result is one target per requested format in
\* the order of the format list: the format alone with no override, the
\* override with only its format replaced otherwise; distinct formats give
\* as many targets with pairwise distinct formats.
C10_OneTargetPerFormat ==
    (/\ roRet # NotCalled
     /\ roArgs.lib.kind = "lib"
     /\ roRet.kind = "return"
     /\ roArgs.outputs.kind \in {"undefined", "single"}) =>
        LET lib == roArgs.lib
            wanted == IF lib.formats = Absent THEN <<"es", "umd">>
                      ELSE lib.formats[1]
            targets == roRet.value.opts
        IN /\ roRet.value.kind = "list"
           /\ Len(targets) = Len(wanted)
           /\ \A i \in 1..Len(wanted) :
                 /\ targets[i].format = wanted[i]
                 /\ IF roArgs.outputs.kind = "undefined"
                    THEN DOMAIN targets[i] = {"format"}
                    ELSE /\ DOMAIN targets[i] =
                               DOMAIN roArgs.outputs.opts \cup {"format"}
                         /\ \A k \in DOMAIN roArgs.outputs.opts \ {"format"} :
                               targets[i][k] = roArgs.outputs.opts[k]
           /\ (Cardinality(Range(wanted)) = Len(wanted) =>
                 \A i, j \in 1..Len(targets) :
                    i # j => targets[i].format # targets[j].format)

\* A single override that has a format of its own, fanned out over two
\* distinct formats.
C10_Witness ==
    /\ roRet # NotCalled
    /\ roRet.kind = "return"
    /\ roArgs.lib.kind = "lib"
    /\ roArgs.lib.formats = Some(<<"es", "cjs">>)
    /\ roArgs.outputs = OutSingle([format |-> "iife", dir |-> "out"])
    /\ Len(roRet.value.opts) = 2

\* C11: an UNRESOLVED_IMPORT warning is never forwarded to a handler; it is
\* suppressed exactly when the unresolved id is a Node built-in, an importer
\* is known, the importer's manifest gives a name and the allow-list holds
\* that name; otherwise an Error is thrown whose message mentions the id.
C11_UnresolvedImportEscalates ==
    (owRet # NotCalled /\ owArgs.warning.code = Some("UNRESOLVED_IMPORT")) =>
        LET w == owArgs.warning
            builtin == w.source \in {Some(id) : id \in NodeBuiltins}
            named == /\ w.importer \notin {Absent, Some("")}
                     /\ owArgs.manifest.found
                     /\ owArgs.manifest.name \notin {Absent, Some("")}
            listed == named /\ \E k \in 1..Len(owArgs.allowNodeBuiltins) :
                         owArgs.allowNodeBuiltins[k] = owArgs.manifest.name[1]
        IN /\ owRet.user = 0 /\ owRet.warn = 0
           /\ owRet.kind = "return" <=> (builtin /\ listed)
           /\ owRet.kind # "return" =>
                /\ owRet.kind = "throw"
                /\ w.source # Absent =>
                     \E k \in 1..Len(owRet.message) :
                        owRet.message[k] = w.source[1]

\* The unresolved import of fs by a dependency on the allow-list was
\* suppressed.
C11_Witness ==
    /\ owRet # NotCalled
    /\ owArgs.warning.code = Some("UNRESOLVED_IMPORT")
    /\ owArgs.warning.source = Some("fs")
    /\ owArgs.allowNodeBuiltins = <<"dep">>
    /\ owRet.kind = "return"

\* C12: a CIRCULAR_DEPENDENCY or THIS_IS_UNDEFINED warning is suppressed
\* whatever its other fields and whether or not a user handler is supplied:
\* no handler is called and nothing is thrown.
C12_NoisyCodesSuppressed ==
    (/\ owRet # NotCalled
     /\ owArgs.warning.code \in
           {Some("CIRCULAR_DEPENDENCY"), Some("THIS_IS_UNDEFINED")}) =>
        owRet.kind = "return" /\ owRet.user = 0 /\ owRet.warn = 0

\* A circular-dependency warning from an ordinary plugin was classified
\* with a user handler supplied.
C12_Witness ==
    /\ owRet # NotCalled
    /\ owArgs.warning.code = Some("CIRCULAR_DEPENDENCY")
    /\ owArgs.warning.plugin = Some("vite:css")
    /\ owArgs.userOnWarn
    /\ owRet.kind = "return"

\* C13: a warning that is neither an unresolved import, nor dynamic-import
\* noise of the dynamic-import-variables plugin, nor of a noisy code, is
\* forwarded to exactly one handler: the user handler when supplied, the
\* default handler otherwise; it is neither dropped nor escalated.
C13_OtherWarningsForwardedOnce ==
    (/\ owRet # NotCalled
     /\ owArgs.warning.code \notin
           {Some("UNRESOLVED_IMPORT"), Some("CIRCULAR_DEPENDENCY"),
            Some("THIS_IS_UNDEFINED")}
     /\ ~(/\ owArgs.warning.plugin =
               Some("rollup-plugin-dynamic-import-variables")
          /\ \E k \in 1..Len(owArgs.warning.message) :
                owArgs.warning.message[k] \in
                   {"Unsupported expression", "statically analyzed"})) =>
        /\ owRet.kind = "return"
        /\ owRet.user + owRet.warn = 1
        /\ owRet.user = (IF owArgs.userOnWarn THEN 1 ELSE 0)

\* A warning of the dynamic-import-variables plugin whose message is not
\* the known noise went to the user handler.
C13_Witness ==
    /\ owRet # NotCalled
    /\ owArgs.warning.plugin = Some("rollup-plugin-dynamic-import-variables")
    /\ owArgs.warning.code = Some("EMPTY_BUNDLE")
    /\ owArgs.userOnWarn
    /\ owRet.kind = "return"
    /\ owRet.user = 1

\* C14: for every raw options record the resolved base ends with a path
\* separator: a base not ending in one resolves to itself followed by one
\* separator, a base ending in one is returned unchanged.
C14_BaseEndsWithSeparator ==
    boRet # NotCalled =>
        LET given == IF boArgs.base = Absent THEN <<Slash>>
                     ELSE boArgs.base[1]
            base == boRet.base
        IN /\ Len(base) > 0
           /\ base[Len(base)] = Slash
           /\ IF Len(given) > 0 /\ given[Len(given)] = Slash
              THEN base = given
              ELSE base = given \o <<Slash>>

\* The place of each built-in plugin in the fixed order.
PluginRank(p) ==
    CASE p = "commonjsPlugin" -> 1
      [] p = "buildHtmlPlugin" -> 2
      [] p = "buildDefinePlugin" -> 3
      [] p = "dynamicImportVars" -> 4
      [] p = "buildEsbuildPlugin" -> 5
      [] p = "terserPlugin" -> 6
      [] p = "manifestPlugin" -> 7
      [] p = "buildReporterPlugin" -> 8
      [] OTHER -> 0

\* C15: the plugin list is the user plugins, then commonjs, html, define,
\* dynamic-import-vars and esbuild, then the minifier iff minify is enabled
\* and not esbuild, then the manifest plugin iff manifest is requested, then
\* the reporter iff the log level is unset or info, always in that order.
C15_PluginOrder ==
    bpRet # NotCalled =>
        LET user == IF bpArgs.plugins = Absent THEN <<>> ELSE bpArgs.plugins[1]
            n == Len(user)
            out == bpRet.plugins
            builtin == SubSeq(out, n + 1, Len(out))
            has(p) == \E k \in 1..Len(builtin) : builtin[k] = p
        IN /\ Len(out) >= n + 5
           /\ SubSeq(out, 1, n) = user
           /\ \A k \in 1..5 : PluginRank(builtin[k]) = k
           /\ \A k \in 1..Len(builtin) : PluginRank(builtin[k]) >= 1
           /\ \A j, k \in 1..Len(builtin) :
                 j < k => PluginRank(builtin[j]) < PluginRank(builtin[k])
           /\ has("terserPlugin") <=>
                 bpArgs.minify \in {MinifyTrue, MinifyTerser}
           /\ has("manifestPlugin") <=> bpArgs.manifest
           /\ has("buildReporterPlugin") <=>
                 bpArgs.logLevel \in {Absent, Some("info")}

\* Two user plugins with every conditional plugin included.
C15_Witness ==
    /\ bpRet # NotCalled
    /\ bpArgs.plugins = Some(<<"user-b", "user-a">>)
    /\ Len(bpRet.plugins) = 10

\* C16: a successful build returns a single result when the resolved
\* targets are a single target or undefined, and for a list of targets a
\* list with one result per target in the order of the targets, whatever
\* order the generation calls completed in.
C16_ResultShapeMatchesTargets ==
    \A b \in Builds :
        result[b].kind = "resolved" =>
            LET targets == ResolveBuildOutputs(cfg[b].output, cfg[b].lib).value
            IN IF targets.kind = "list"
               THEN /\ value[b].kind = "list"
                    /\ Len(value[b].outs) = Len(targets.opts)
                    /\ \A i \in 1..Len(targets.opts) :
                          value[b].outs[i].of = Some(targets.opts[i])
               ELSE /\ value[b].kind = "single"
                    /\ Len(value[b].outs) = 1
                    /\ value[b].outs[1].of =
                          (IF targets.kind = "single"
                           THEN Some(targets.opts) ELSE Absent)

\* A finished two-target build whose second generation call resolved before
\* its first.
C16_Witness ==
    \E b \in Builds :
        /\ pc[b] = "done"
        /\ result[b].kind = "resolved"
        /\ order[b] = <<2, 1>>

\* C17: a handle is never closed in the cleanup of the build() call that
\* registered it.
C17_NeverClosedByCreator ==
    [][\A b \in Builds :
          closeCount'[Handle(b)] > closeCount[Handle(b)]
             => ~(pc[b] = "returned" /\ pc'[b] = "done")]_vars

\* C17, amended: a handle is closed only in the cleanup of the one build()
\* call still in flight, the call that brings the count to zero, and that
\* call may be the one that registered the handle.
C17_ClosedByLastCallInFlight ==
    [][\A h \in Builds :
          closeCount'[h] > closeCount[h] =>
             \E b \in Builds :
                /\ pc[b] = "returned" /\ pc'[b] = "done"
                /\ InFlight = {b}
                /\ parallelCallCounts = 1]_vars

\* The only build() call made so far has finished and its own cleanup
\* closed the handle it registered.
C17_Witness ==
    \E a \in Builds :
        /\ pc[a] = "done" /\ closeCount[Handle(a)] = 1
        /\ \A b \in Builds \ {a} : pc[b] = "idle"

\* C18: the input the engine's assemble phase receives is the library entry
\* whenever library mode is enabled, also when the user's rollupOptions
\* give an input; otherwise the user's input when given; otherwise
\* index.html resolved against the project root.
C18_EntryInput ==
    riRet # NotCalled =>
        riRet.input =
            (IF riArgs.lib.kind = "lib" THEN <<riArgs.lib.entry>>
             ELSE IF "input" \in DOMAIN riArgs.rollupOptions
             THEN riArgs.rollupOptions.input
             ELSE <<riArgs.root, "index.html">>)

\* C19: in library mode, when the output override is a list and the name
\* validation passes, resolveBuildOutputs returns that list unchanged and
\* calls logger.warn exactly when the library options give a formats list;
\* it does not throw.  With library mode disabled the override (single, list
\* or undefined) is returned unchanged, without a warning or an error.
C19_ListOverrideRespected ==
    roRet # NotCalled =>
        LET lib == roArgs.lib
            given == roArgs.outputs
            wanted == IF lib.formats = Absent THEN {"es", "umd"}
                      ELSE Range(lib.formats[1])
            passes == ~(/\ wanted \cap {"umd", "iife"} # {}
                        /\ (lib.name = Absent \/ lib.name = Some("")))
        IN /\ (lib.kind = "lib" /\ given.kind = "list" /\ passes) =>
                 /\ roRet.kind = "return"
                 /\ roRet.err = NoError
                 /\ roRet.value = given
                 /\ roRet.warned <=> lib.formats # Absent
           /\ lib.kind = "false" =>
                 /\ roRet.kind = "return"
                 /\ roRet.err = NoError
                 /\ roRet.value = given
                 /\ ~roRet.warned

\* A two-target list override was returned as given, with a warning, for a
\* library whose formats list is present but empty.
C19_Witness ==
    /\ roRet # NotCalled
    /\ roArgs.lib.kind = "lib"
    /\ roArgs.lib.formats = Some(<<>>)
    /\ roArgs.outputs = TwoTargets
    /\ roRet.kind = "return"
    /\ roRet.value = TwoTargets
    /\ roRet.warned

\* C20: no engine handle is closed while a generation call started on it is
\* still running, whatever the number of concurrent build() calls and the
\* outcomes of the generation calls.
C20_NoCloseDuringGeneration ==
    [][\A h \in Builds :
          closeCount'[h] > closeCount[h] =>
             \A b \in Builds :
                Handle(b) = h =>
                   \A i \in 1..Len(gen'[b]) : gen'[b][i] # "running"]_vars

====
